---- MODULE Spec2Model ----
(***************************************************************************)
(* Model of src/mcp_server.py: the four MCP tool handlers (list_tables,     *)
(* get_table_schema, execute_query, execute_safe_query) over the           *)
(* connection helper get_db_connection and an asyncpg connection.          *)
(*                                                                         *)
(* A handler runs as an asyncio coroutine: it is atomic between two awaits, *)
(* so every action below is one stretch of a handler from one await to the  *)
(* next.  The driver (asyncpg.connect, Connection.fetch/execute/close) is   *)
(* the environment: each awaited call either returns a value drawn from a   *)
(* small set or raises an exception drawn from a small set.                 *)
(*                                                                         *)
(* Text is modelled as a sequence of strings whose concatenation is the     *)
(* Python str: SQL text and driver status strings are sequences of          *)
(* one-character strings, formatted messages are sequences of pieces.       *)
(* A payload is the dict a handler hands to json.dumps.                     *)
(***************************************************************************)
EXTENDS Integers, Sequences, FiniteSets, TLC

(***************************************************************************)
(* Python str operations used by the handlers                              *)
(***************************************************************************)

\* Characters str.strip() and str.split() treat as whitespace.
Whitespace == {" ", "\t", "\n"}

LowerLetters == <<"a","b","c","d","e","f","g","h","i","j","k","l","m",
                  "n","o","p","q","r","s","t","u","v","w","x","y","z">>

UpperLetters == <<"A","B","C","D","E","F","G","H","I","J","K","L","M",
                  "N","O","P","Q","R","S","T","U","V","W","X","Y","Z">>

\* str.upper() on one character.
UpperChar(c) ==
    IF \E k \in 1..Len(LowerLetters) : LowerLetters[k] = c
    THEN UpperLetters[CHOOSE k \in 1..Len(LowerLetters) : LowerLetters[k] = c]
    ELSE c

\* str.upper()
Upper(s) == [k \in 1..Len(s) |-> UpperChar(s[k])]

RECURSIVE LStrip(_)
LStrip(s) ==
    IF s # <<>> /\ Head(s) \in Whitespace THEN LStrip(Tail(s)) ELSE s

RECURSIVE RStrip(_)
RStrip(s) ==
    IF s # <<>> /\ s[Len(s)] \in Whitespace
    THEN RStrip(SubSeq(s, 1, Len(s) - 1))
    ELSE s

\* str.strip()
Strip(s) == RStrip(LStrip(s))

\* str.startswith(p)
StartsWith(s, p) == Len(s) >= Len(p) /\ SubSeq(s, 1, Len(p)) = p

\* str.split(): the maximal runs of non-whitespace characters, in order.
RECURSIVE SplitFrom(_, _, _)
SplitFrom(s, cur, acc) ==
    IF s = <<>>
    THEN IF cur = <<>> THEN acc ELSE Append(acc, cur)
    ELSE IF Head(s) \in Whitespace
         THEN SplitFrom(Tail(s), <<>>, IF cur = <<>> THEN acc ELSE Append(acc, cur))
         ELSE SplitFrom(Tail(s), Append(cur, Head(s)), acc)

Split(s) == SplitFrom(s, <<>>, <<>>)

SELECT == <<"S","E","L","E","C","T">>

\* query.strip().upper()
QueryUpper(query) == Upper(Strip(query))

\* A classification that trims but compares the text in its own letter case.
IsSelectCaseSensitive(query) == StartsWith(Strip(query), SELECT)

\* query.strip().upper().startswith('SELECT')
IsSelect(query) == StartsWith(QueryUpper(query), SELECT)


(***************************************************************************)
(* Values                                                                  *)
(***************************************************************************)

\* Optional[list]: None, or a list of positional parameters.
NoneParams == [none |-> TRUE, vals |-> <<>>]

ListParams(vals) == [none |-> FALSE, vals |-> vals]

\* Python truthiness of params ("if params:"): None and [] are falsy.
Truthy(params) == ~params.none /\ params.vals # <<>>

\* An exception object and str(exception).
Exc(type, msg) == [type |-> type, msg |-> msg]

Str(e) == <<e.msg>>

IndexError == Exc("IndexError", "list index out of range")

\* What a stretch of code ends with: a returned payload, a raised exception,
\* or neither yet.  An Optional value is <<>> (None) or <<v>>.
NoOutcome == [payload |-> <<>>, exc |-> <<>>]

Return(p) == [payload |-> <<p>>, exc |-> <<>>]

Raise(e) == [payload |-> <<>>, exc |-> <<e>>]

Returned(o) == o.payload # <<>>

Raised(o) == o.exc # <<>>

\* json.dumps({"error": ..., "status": "failed"})
ErrorResponse(error) == [error |-> error, status |-> "failed"]

\* One call on the driver, as a spy on asyncpg would record it.
DriverCall(op, text, args) == [op |-> op, text |-> text, args |-> args]

\* The same call with the connection it is made on (0: on no connection).
On(c, call) == [op |-> call.op, text |-> call.text, args |-> call.args, on |-> c]

ConnectCall == DriverCall("connect", <<>>, <<>>)

CloseCall == DriverCall("close", <<>>, <<>>)

\* What the driver answered to a call: a value or an exception.
Ok(v) == [value |-> <<v>>, exc |-> <<>>]

Fail(e) == [value |-> <<>>, exc |-> <<e>>]

\* The fixed catalog statements, each standing for its SQL text.
ListQuery == <<"SELECT table_name FROM information_schema.tables ...">>

ColumnQuery == <<"SELECT column_name, ... FROM information_schema.columns ...">>

PkQuery == <<"SELECT a.attname as column_name FROM pg_index i ...">>

FkQuery == <<"SELECT kcu.column_name, ... FROM information_schema.table_constraints ...">>

(***************************************************************************)
(* The catalog and the statement of list_tables                            *)
(***************************************************************************)

\* Code-point order of the characters of identifiers.
CodePoints == UpperLetters \o <<"_">> \o LowerLetters

CodePoint(c) == CHOOSE k \in 1..Len(CodePoints) : CodePoints[k] = c

\* a sorts strictly before b, character by character.
RECURSIVE LexLess(_, _)
LexLess(a, b) ==
    IF b = <<>> THEN FALSE
    ELSE IF a = <<>> THEN TRUE
    ELSE IF Head(a) = Head(b) THEN LexLess(Tail(a), Tail(b))
    ELSE CodePoint(Head(a)) < CodePoint(Head(b))

\* "ORDER BY table_name": the rows in ascending order of table_name.
RECURSIVE OrderByTableName(_)
OrderByTableName(rows) ==
    IF rows = {} THEN <<>>
    ELSE LET first == CHOOSE r \in rows :
                          \A o \in rows : ~LexLess(o.table_name, r.table_name)
         IN  <<[table_name |-> first.table_name]>> \o OrderByTableName(rows \ {first})

\* The rows in descending order, one of the orders a statement without
\* ORDER BY may yield.
RECURSIVE Unordered(_)
Unordered(rows) ==
    IF rows = {} THEN <<>>
    ELSE LET last == CHOOSE r \in rows :
                         \A o \in rows : ~LexLess(r.table_name, o.table_name)
         IN  <<[table_name |-> last.table_name]>> \o Unordered(rows \ {last})

\* The statement of list_tables without its ORDER BY clause.
ListQueryRowsUnordered(catalog, schema_name) ==
    Unordered({ t \in catalog : /\ t.table_schema = schema_name
                                /\ t.table_type = "BASE TABLE" })

\* The rows the statement of list_tables selects from information_schema.tables:
\* "WHERE table_schema = $1 AND table_type = 'BASE TABLE' ORDER BY table_name".
ListQueryRows(catalog, schema_name) ==
    OrderByTableName({ t \in catalog : /\ t.table_schema = schema_name
                                       /\ t.table_type = "BASE TABLE" })

(***************************************************************************)
(* Pure parts of the handlers                                              *)
(***************************************************************************)

\* list_tables: the payload built from the fetched rows.
ListTablesPayload(schema_name, rows) ==
    [schema |-> schema_name,
     tables |-> [k \in 1..Len(rows) |-> rows[k].table_name],
     count  |-> Len(rows)]

\* A not-found message with the two names in each other's place.
NotFoundPayloadSwapped(table_name, schema_name) ==
    ErrorResponse(<<"Table '", schema_name, "' not found in schema '", table_name, "'">>)

\* get_table_schema: the payload of the not-found early return.
NotFoundPayload(table_name, schema_name) ==
    ErrorResponse(<<"Table '", table_name, "' not found in schema '", schema_name, "'">>)

\* get_table_schema: [pk['column_name'] for pk in pks]
PrimaryKeys(pks) == [k \in 1..Len(pks) |-> pks[k].column_name]

InSeq(x, s) == \E k \in 1..Len(s) : s[k] = x

\* A col_dict that carries max_length for every column.
ColDictAlwaysLength(col, primary_keys) ==
    [name           |-> col.column_name,
     type           |-> col.data_type,
     nullable       |-> (col.is_nullable = "YES"),
     default        |-> col.column_default,
     is_primary_key |-> InSeq(col.column_name, primary_keys),
     max_length     |-> col.character_maximum_length]

\* get_table_schema: one col_dict.
ColDict(col, primary_keys) ==
    LET base == [name           |-> col.column_name,
                 type           |-> col.data_type,
                 nullable       |-> (col.is_nullable = "YES"),
                 default        |-> col.column_default,
                 is_primary_key |-> InSeq(col.column_name, primary_keys)]
        ml   == col.character_maximum_length
    IN  IF ml # <<>> /\ ml[1] # 0
        THEN base @@ [max_length |-> ml[1]]
        ELSE base

\* get_table_schema: the success payload.
SchemaPayload(table_name, schema_name, columns, pks, fks) ==
    [schema       |-> schema_name,
     table        |-> table_name,
     columns      |-> [k \in 1..Len(columns) |-> ColDict(columns[k], PrimaryKeys(pks))],
     primary_keys |-> PrimaryKeys(pks),
     foreign_keys |-> [k \in 1..Len(fks) |->
                          [column            |-> fks[k].column_name,
                           references_table  |-> fks[k].foreign_table_name,
                           references_column |-> fks[k].foreign_column_name]]]

\* execute_query: the positional arguments after the query text
\* ("conn.fetch(query, *params)" if params else "conn.fetch(query)").
DriverArgs(params) == IF Truthy(params) THEN params.vals ELSE <<>>

\* A call that hands the driver the normalised copy of the text.
QueryCallNormalised(query, params) ==
    DriverCall(IF IsSelect(query) THEN "fetch" ELSE "execute",
               QueryUpper(query), DriverArgs(params))

\* execute_query: the driver call the classification selects.
QueryCall(query, params) ==
    DriverCall(IF IsSelect(query) THEN "fetch" ELSE "execute", query, DriverArgs(params))

\* execute_query: the SELECT payload.
SelectPayload(rows) ==
    [type |-> SELECT, row_count |-> Len(rows), results |-> rows]

\* execute_query: the mutation branch after conn.execute returned status;
\* an empty token list makes the [-1] or [0] subscript raise IndexError.
MutationOutcome(query, status) ==
    IF status # <<>> /\ Split(status) = <<>> THEN Raise(IndexError)
    ELSE IF Split(QueryUpper(query)) = <<>> THEN Raise(IndexError)
    ELSE Return([type          |-> Split(QueryUpper(query))[1],
                 affected_rows |-> IF status # <<>>
                                   THEN Split(status)[Len(Split(status))]
                                   ELSE <<"0">>,
                 status        |-> "success"])

\* An except clause that re-raises, as the one of list_tables does.
CaughtReraises(o) == o

\* "except Exception as e: return json.dumps({error: str(e), status: failed})"
\* of get_table_schema and execute_query.
Caught(o) == IF Raised(o) THEN Return(ErrorResponse(Str(o.exc[1]))) ELSE o

\* An except clause that returns an error payload, as the other handlers do.
ReraisedAsPayload(o) == IF Raised(o) THEN Return(ErrorResponse(Str(o.exc[1]))) ELSE o

\* "except Exception as e: raise" of list_tables.
Reraised(o) == o

\* A guard that looks for SELECT anywhere in the text instead of at its start.
RejectedUnlessContains(query) ==
    ~\E k \in 1..Len(query) :
        k + Len(SELECT) - 1 <= Len(query)
        /\ SubSeq(Upper(query), k, k + Len(SELECT) - 1) = SELECT

\* A guard that also lets statements starting with WITH through.
RejectedUnlessSelectOrWith(query) ==
    ~(IsSelect(query) \/ StartsWith(QueryUpper(query), <<"W","I","T","H">>))

\* execute_safe_query: the guard.
Rejected(query) == ~IsSelect(query)

RejectedPayload == ErrorResponse(<<"Only SELECT queries are allowed with this tool">>)

\* execute_safe_query: the arguments of its call execute_query(query).
Delegated(query) == [query |-> query, params |-> NoneParams]


(***************************************************************************)
(* Inputs of the callers and answers of the driver                         *)
(***************************************************************************)

\* Number of handler invocations that may be in flight together.
NumInv == 2

Inv == 1..NumInv

Handlers == {"list_tables", "get_table_schema", "execute_query", "execute_safe_query"}

Leads == { <<>>, <<" ">>, <<"\n", "\t">> }

Words == { <<>>,
           <<"s","e","l","e","c","t">>,
           <<"S","E","L","E","C","T">>,
           <<"S","e","L","e","C","t">>,
           <<"s","e","l","e","c">>,
           <<"i","n","s","e","r","t">>,
           <<"U","P","D","A","T","E">>,
           <<"w","i","t","h">> }

Rests == { <<>>, <<"1">>, <<" ", "1">>, <<" ", "x", "\n">>,
           <<" ", "s","e","l","e","c","t">> }

\* Query texts: optional leading whitespace, a first word in some letter
\* case, and a remainder that may or may not be set off by whitespace.
Queries == { l \o w \o r : l \in Leads, w \in Words, r \in Rests }

ParamLists == { NoneParams, ListParams(<<>>), ListParams(<<1>>),
                ListParams(<<1, 2>>), ListParams(<<2, 1>>) }

SchemaNames == {"public", "sales"}

TableNames == {"users", "orders"}

\* Status strings conn.execute returns.
Statuses == { <<>>,
              <<" ">>,
              <<"I","N","S","E","R","T"," ","0"," ","1">>,
              <<"U","P","D","A","T","E"," ","2">> }

\* Exceptions the driver raises (subclasses of Exception).
DriverErrors == { Exc("PostgresError", "Syntax error"),
                  Exc("ConnectionDoesNotExistError", "connection was closed") }

ConnectErrors == { Exc("PostgresError", "Connection failed") }

\* Rows of information_schema.tables; a schema holds a name once.
CatalogTables ==
    { [table_schema |-> "public", table_name |-> <<"u","s","e","r","s">>, table_type |-> "BASE TABLE"],
      [table_schema |-> "public", table_name |-> <<"o","r","d","e","r","s">>, table_type |-> "BASE TABLE"],
      [table_schema |-> "public", table_name |-> <<"o","r","d","e","r","_","i","t","e","m","s">>, table_type |-> "BASE TABLE"],
      [table_schema |-> "public", table_name |-> <<"a","c","t","i","v","e","_","u","s","e","r","s">>, table_type |-> "VIEW"],
      [table_schema |-> "sales", table_name |-> <<"o","r","d","e","r","s">>, table_type |-> "BASE TABLE"] }

\* The catalogs a database may have.
Catalogs == SUBSET CatalogTables

ConcCatalog ==
    { [table_schema |-> "public", table_name |-> <<"u","s","e","r","s">>, table_type |-> "BASE TABLE"] }

IdColumn ==
    [column_name |-> "id", data_type |-> "integer",
     character_maximum_length |-> <<>>, is_nullable |-> "NO",
     column_default |-> <<"nextval('users_id_seq')">>]

NameColumn ==
    [column_name |-> "name", data_type |-> "character varying",
     character_maximum_length |-> <<255>>, is_nullable |-> "YES",
     column_default |-> <<>>]

\* A column of the shortest length-bounded type PostgreSQL accepts, char(1).
CodeColumn ==
    [column_name |-> "code", data_type |-> "character",
     character_maximum_length |-> <<1>>, is_nullable |-> "NO",
     column_default |-> <<>>]

\* Rows of information_schema.columns: character_maximum_length is null or
\* the declared length, which PostgreSQL requires to be at least 1.
ColumnRowSeqs == { <<>>, <<IdColumn>>, <<IdColumn, NameColumn>>,
                   <<CodeColumn, IdColumn>> }

PkRowSeqs == { <<>>, <<[column_name |-> "id"]>> }

FkRowSeqs == { <<>>,
               <<[column_name |-> "user_id", foreign_table_name |-> "users",
                  foreign_column_name |-> "id"]>> }

SelectRowSeqs == { <<>>,
                   <<[id |-> 1, name |-> "Alice"]>>,
                   <<[id |-> 1, name |-> "Alice"], [id |-> 2, name |-> "Bob"]>> }

\* The smaller inputs of the concurrent specification.
ConcQueries == { <<"s","e","l","e","c","t"," ","1">>,
                 <<"i","n","s","e","r","t"," ","x">> }

ConcStatuses == { <<"I","N","S","E","R","T"," ","0"," ","1">> }

ConcErrors == { Exc("PostgresError", "Syntax error") }

(***************************************************************************)
(* State                                                                   *)
(***************************************************************************)

VARIABLES
    pc,        \* pc[i]: the await invocation i is suspended at
    req,       \* req[i]: the tool call: handler and arguments
    eq,        \* eq[i]: the arguments of the execute_query frame of i
    conn,      \* conn[i]: the connection get_db_connection returned, 0 before
    open,      \* the connections that are open
    created,   \* number of connections asyncpg.connect has created
    calls,     \* calls[i]: the driver calls invocation i has made, in order
    answers,   \* answers[i][k]: what the driver answered to calls[i][k]
    locals,    \* locals[i]: columns and pks of get_table_schema
    pending,   \* pending[i]: what the try block ended with, during finally
    ret        \* ret[i]: what the caller of invocation i received

vars == <<pc, req, eq, conn, open, created, calls, answers, locals, pending, ret>>

NoReq == [handler |-> "none", schema_name |-> "", table_name |-> "",
          query |-> <<>>, params |-> NoneParams]

NoEq == [query |-> <<>>, params |-> NoneParams]

NoLocals == [columns |-> <<>>, pks |-> <<>>]

Init ==
    /\ pc = [i \in Inv |-> "idle"]
    /\ req = [i \in Inv |-> NoReq]
    /\ eq = [i \in Inv |-> NoEq]
    /\ conn = [i \in Inv |-> 0]
    /\ open = {}
    /\ created = 0
    /\ calls = [i \in Inv |-> <<>>]
    /\ answers = [i \in Inv |-> <<>>]
    /\ locals = [i \in Inv |-> NoLocals]
    /\ pending = [i \in Inv |-> NoOutcome]
    /\ ret = [i \in Inv |-> NoOutcome]


(***************************************************************************)
(* Steps shared by the handlers                                            *)
(***************************************************************************)

\* "conn = await get_db_connection()": the handler suspends in asyncpg.connect.
Acquire(i) ==
    /\ calls' = [calls EXCEPT ![i] = Append(@, On(0, ConnectCall))]
    /\ pc' = [pc EXCEPT ![i] = "connecting"]

\* A helper that hands out one cached connection while it is open.
ConnectedShared(i, call, at) ==
    LET c == IF open # {} THEN CHOOSE x \in open : TRUE ELSE created + 1
    IN  /\ created' = IF open # {} THEN created ELSE created + 1
        /\ conn' = [conn EXCEPT ![i] = c]
        /\ open' = open \cup {c}
        /\ answers' = [answers EXCEPT ![i] = Append(@, Ok(c))]
        /\ calls' = [calls EXCEPT ![i] = Append(@, On(c, call))]
        /\ pc' = [pc EXCEPT ![i] = at]

\* asyncpg.connect returned a new connection; the handler enters its try
\* block and suspends in its first driver call.
Connected(i, call, at) ==
    /\ created' = created + 1
    /\ conn' = [conn EXCEPT ![i] = created + 1]
    /\ open' = open \cup {created + 1}
    /\ answers' = [answers EXCEPT ![i] = Append(@, Ok(created + 1))]
    /\ calls' = [calls EXCEPT ![i] = Append(@, On(created + 1, call))]
    /\ pc' = [pc EXCEPT ![i] = at]

\* The driver answered a to the pending call of i.
Answered(i, a) == answers' = [answers EXCEPT ![i] = Append(@, a)]

\* The handler suspends in its next driver call.
Issue(i, call, at) ==
    /\ calls' = [calls EXCEPT ![i] = Append(@, On(conn[i], call))]
    /\ pc' = [pc EXCEPT ![i] = at]

\* The try block ended with o; "finally: await conn.close()".
Finally(i, o) ==
    /\ pending' = [pending EXCEPT ![i] = o]
    /\ calls' = [calls EXCEPT ![i] = Append(@, On(conn[i], CloseCall))]
    /\ pc' = [pc EXCEPT ![i] = "closing"]

\* get_db_connection: asyncpg.connect raised; the helper logs and re-raises,
\* and the awaiting handler, whose try block starts after the await, lets
\* the exception pass to its caller.
get_db_connection_raises(i, e) ==
    /\ pc[i] = "connecting"
    /\ Answered(i, Fail(e))
    /\ ret' = [ret EXCEPT ![i] = Raise(e)]
    /\ pc' = [pc EXCEPT ![i] = "done"]
    /\ UNCHANGED <<req, eq, conn, open, created, calls, locals, pending>>

\* conn.close() returned: the finally block ends and the pending return
\* value or exception reaches the caller.
close_returns(i) ==
    /\ pc[i] = "closing"
    /\ Answered(i, Ok(<<>>))
    /\ open' = open \ {conn[i]}
    /\ ret' = [ret EXCEPT ![i] = pending[i]]
    /\ pc' = [pc EXCEPT ![i] = "done"]
    /\ UNCHANGED <<req, eq, conn, created, calls, locals, pending>>

(***************************************************************************)
(* list_tables                                                             *)
(***************************************************************************)

list_tables(i, schema_name) ==
    /\ pc[i] = "idle"
    /\ req' = [req EXCEPT ![i] = [NoReq EXCEPT !.handler = "list_tables",
                                               !.schema_name = schema_name]]
    /\ Acquire(i)
    /\ UNCHANGED <<eq, conn, open, created, answers, locals, pending, ret>>

list_tables_connected(i) ==
    /\ pc[i] = "connecting"
    /\ req[i].handler = "list_tables"
    /\ Connected(i, DriverCall("fetch", ListQuery, <<req[i].schema_name>>), "list_fetch")
    /\ UNCHANGED <<req, eq, locals, pending, ret>>

list_tables_fetched(i, rows) ==
    /\ pc[i] = "list_fetch"
    /\ Answered(i, Ok(rows))
    /\ Finally(i, Reraised(Return(ListTablesPayload(req[i].schema_name, rows))))
    /\ UNCHANGED <<req, eq, conn, open, created, locals, ret>>

list_tables_fetch_raises(i, e) ==
    /\ pc[i] = "list_fetch"
    /\ Answered(i, Fail(e))
    /\ Finally(i, Reraised(Raise(e)))
    /\ UNCHANGED <<req, eq, conn, open, created, locals, ret>>

(***************************************************************************)
(* get_table_schema                                                        *)
(***************************************************************************)

get_table_schema(i, table_name, schema_name) ==
    /\ pc[i] = "idle"
    /\ req' = [req EXCEPT ![i] = [NoReq EXCEPT !.handler = "get_table_schema",
                                               !.table_name = table_name,
                                               !.schema_name = schema_name]]
    /\ Acquire(i)
    /\ UNCHANGED <<eq, conn, open, created, answers, locals, pending, ret>>

get_table_schema_connected(i) ==
    /\ pc[i] = "connecting"
    /\ req[i].handler = "get_table_schema"
    /\ Connected(i, DriverCall("fetch", ColumnQuery,
                               <<req[i].schema_name, req[i].table_name>>),
                 "columns_fetch")
    /\ UNCHANGED <<req, eq, locals, pending, ret>>

\* A handler whose not-found return leaves before the connection is closed.
columns_fetched_leak(i, columns) ==
    /\ pc[i] = "columns_fetch"
    /\ Answered(i, Ok(columns))
    /\ IF columns = <<>>
       THEN /\ ret' = [ret EXCEPT ![i] = Return(NotFoundPayload(req[i].table_name,
                                                                req[i].schema_name))]
            /\ pc' = [pc EXCEPT ![i] = "done"]
            /\ UNCHANGED <<locals, calls, pending>>
       ELSE /\ locals' = [locals EXCEPT ![i].columns = columns]
            /\ Issue(i, DriverCall("fetch", PkQuery,
                                   << <<req[i].schema_name, ".", req[i].table_name>> >>),
                     "pk_fetch")
            /\ UNCHANGED <<pending, ret>>
    /\ UNCHANGED <<req, eq, conn, open, created>>

\* The column fetch returned: "if not columns" returns the not-found payload,
\* otherwise the primary-key fetch is issued.
columns_fetched(i, columns) ==
    /\ pc[i] = "columns_fetch"
    /\ Answered(i, Ok(columns))
    /\ IF columns = <<>>
       THEN /\ Finally(i, Caught(Return(NotFoundPayload(req[i].table_name,
                                                        req[i].schema_name))))
            /\ UNCHANGED locals
       ELSE /\ locals' = [locals EXCEPT ![i].columns = columns]
            /\ Issue(i, DriverCall("fetch", PkQuery,
                                   << <<req[i].schema_name, ".", req[i].table_name>> >>),
                     "pk_fetch")
            /\ UNCHANGED pending
    /\ UNCHANGED <<req, eq, conn, open, created, ret>>

pks_fetched(i, pks) ==
    /\ pc[i] = "pk_fetch"
    /\ Answered(i, Ok(pks))
    /\ locals' = [locals EXCEPT ![i].pks = pks]
    /\ Issue(i, DriverCall("fetch", FkQuery,
                           <<req[i].schema_name, req[i].table_name>>),
             "fk_fetch")
    /\ UNCHANGED <<req, eq, conn, open, created, pending, ret>>

fks_fetched(i, fks) ==
    /\ pc[i] = "fk_fetch"
    /\ Answered(i, Ok(fks))
    /\ Finally(i, Caught(Return(SchemaPayload(req[i].table_name, req[i].schema_name,
                                              locals[i].columns, locals[i].pks, fks))))
    /\ UNCHANGED <<req, eq, conn, open, created, locals, ret>>

\* An except clause that reports the columns fetched so far with the error.
get_table_schema_fetch_raises_partial(i, e) ==
    /\ pc[i] \in {"columns_fetch", "pk_fetch", "fk_fetch"}
    /\ Answered(i, Fail(e))
    /\ Finally(i, Return(ErrorResponse(Str(e)) @@ [columns |-> locals[i].columns]))
    /\ UNCHANGED <<req, eq, conn, open, created, locals, ret>>

get_table_schema_fetch_raises(i, e) ==
    /\ pc[i] \in {"columns_fetch", "pk_fetch", "fk_fetch"}
    /\ Answered(i, Fail(e))
    /\ Finally(i, Caught(Raise(e)))
    /\ UNCHANGED <<req, eq, conn, open, created, locals, ret>>

(***************************************************************************)
(* execute_query and execute_safe_query                                    *)
(***************************************************************************)

execute_query(i, query, params) ==
    /\ pc[i] = "idle"
    /\ req' = [req EXCEPT ![i] = [NoReq EXCEPT !.handler = "execute_query",
                                               !.query = query,
                                               !.params = params]]
    /\ eq' = [eq EXCEPT ![i] = [query |-> query, params |-> params]]
    /\ Acquire(i)
    /\ UNCHANGED <<conn, open, created, answers, locals, pending, ret>>

\* The guard either returns its error payload at once or calls
\* execute_query(query), which suspends in get_db_connection.
execute_safe_query(i, query) ==
    /\ pc[i] = "idle"
    /\ req' = [req EXCEPT ![i] = [NoReq EXCEPT !.handler = "execute_safe_query",
                                               !.query = query]]
    /\ IF Rejected(query)
       THEN /\ ret' = [ret EXCEPT ![i] = Return(RejectedPayload)]
            /\ pc' = [pc EXCEPT ![i] = "done"]
            /\ UNCHANGED <<eq, calls>>
       ELSE /\ eq' = [eq EXCEPT ![i] = Delegated(query)]
            /\ Acquire(i)
            /\ UNCHANGED ret
    /\ UNCHANGED <<conn, open, created, answers, locals, pending>>

execute_query_connected(i) ==
    /\ pc[i] = "connecting"
    /\ req[i].handler \in {"execute_query", "execute_safe_query"}
    /\ LET call == QueryCall(eq[i].query, eq[i].params)
       IN  Connected(i, call, IF call.op = "fetch" THEN "select_fetch" ELSE "execute")
    /\ UNCHANGED <<req, eq, locals, pending, ret>>

select_fetched(i, rows) ==
    /\ pc[i] = "select_fetch"
    /\ Answered(i, Ok(rows))
    /\ Finally(i, Caught(Return(SelectPayload(rows))))
    /\ UNCHANGED <<req, eq, conn, open, created, locals, ret>>

executed(i, status) ==
    /\ pc[i] = "execute"
    /\ Answered(i, Ok(status))
    /\ Finally(i, Caught(MutationOutcome(eq[i].query, status)))
    /\ UNCHANGED <<req, eq, conn, open, created, locals, ret>>

execute_query_raises(i, e) ==
    /\ pc[i] \in {"select_fetch", "execute"}
    /\ Answered(i, Fail(e))
    /\ Finally(i, Caught(Raise(e)))
    /\ UNCHANGED <<req, eq, conn, open, created, locals, ret>>

(***************************************************************************)
(* Specifications                                                          *)
(***************************************************************************)

\* No handler has been called yet.
Quiet == \A j \in Inv : pc[j] = "idle"

\* One tool call, with every input and every driver answer.
Next ==
    \E i \in Inv :
        \/ \E s \in SchemaNames : Quiet /\ list_tables(i, s)
        \/ \E t \in TableNames, s \in SchemaNames : Quiet /\ get_table_schema(i, t, s)
        \/ \E q \in Queries, p \in ParamLists : Quiet /\ execute_query(i, q, p)
        \/ \E q \in Queries : Quiet /\ execute_safe_query(i, q)
        \/ \E e \in ConnectErrors : get_db_connection_raises(i, e)
        \/ list_tables_connected(i)
        \/ \E catalog \in Catalogs :
               list_tables_fetched(i, ListQueryRows(catalog, req[i].schema_name))
        \/ \E e \in DriverErrors : list_tables_fetch_raises(i, e)
        \/ get_table_schema_connected(i)
        \/ \E rows \in ColumnRowSeqs : columns_fetched(i, rows)
        \/ \E rows \in PkRowSeqs : pks_fetched(i, rows)
        \/ \E rows \in FkRowSeqs : fks_fetched(i, rows)
        \/ \E e \in DriverErrors : get_table_schema_fetch_raises(i, e)
        \/ execute_query_connected(i)
        \/ \E rows \in SelectRowSeqs : select_fetched(i, rows)
        \/ \E status \in Statuses : executed(i, status)
        \/ \E e \in DriverErrors : execute_query_raises(i, e)
        \/ close_returns(i)

Spec == Init /\ [][Next]_vars

\* Tool calls running concurrently, each on its own invocation.
NextConc ==
    \E i \in Inv :
        \/ list_tables(i, "public")
        \/ get_table_schema(i, "users", "public")
        \/ \E q \in ConcQueries : execute_query(i, q, NoneParams)
        \/ \E q \in ConcQueries : execute_safe_query(i, q)
        \/ \E e \in ConnectErrors : get_db_connection_raises(i, e)
        \/ list_tables_connected(i)
        \/ list_tables_fetched(i, ListQueryRows(ConcCatalog, req[i].schema_name))
        \/ \E e \in ConcErrors : list_tables_fetch_raises(i, e)
        \/ get_table_schema_connected(i)
        \/ \E rows \in {<<>>, <<IdColumn>>} : columns_fetched(i, rows)
        \/ pks_fetched(i, <<[column_name |-> "id"]>>)
        \/ fks_fetched(i, <<>>)
        \/ \E e \in ConcErrors : get_table_schema_fetch_raises(i, e)
        \/ execute_query_connected(i)
        \/ select_fetched(i, <<>>)
        \/ \E status \in ConcStatuses : executed(i, status)
        \/ \E e \in ConcErrors : execute_query_raises(i, e)
        \/ close_returns(i)

SpecConc == Init /\ [][NextConc]_vars


(***************************************************************************)
(* Properties                                                              *)
(***************************************************************************)

\* Number of calls of one driver operation invocation i has made.
Count(i, op) == Cardinality({k \in 1..Len(calls[i]) : calls[i][k].op = op})

\* The driver answered call k of invocation i by raising.
DriverRaised(i, k) == k <= Len(answers[i]) /\ answers[i][k].exc # <<>>

\* C1: an invocation that acquired a connection calls close on that
\* connection at most once at any time, and exactly once, with the close
\* completed, by the time its caller receives a payload or an exception.
C1_CloseExactlyOnce ==
    \A i \in Inv :
        conn[i] # 0 =>
            /\ Count(i, "close") <= 1
            /\ \A k \in 1..Len(calls[i]) :
                   calls[i][k].op = "close" => calls[i][k].on = conn[i]
            /\ (pc[i] = "done" \/ ret[i] # NoOutcome) =>
                   /\ Count(i, "close") = 1
                   /\ calls[i][Len(calls[i])].op = "close"
                   /\ Len(answers[i]) = Len(calls[i])
                   /\ conn[i] \notin open

\* An execute_query invocation whose driver call raised has returned after
\* closing its connection once.
C1_Witness ==
    \E i \in Inv :
        /\ req[i].handler = "execute_query"
        /\ pc[i] = "done"
        /\ conn[i] # 0
        /\ DriverRaised(i, 2)
        /\ Count(i, "close") = 1

\* C2: execute_safe_query on a query whose trimmed, upper-cased text does
\* not start with SELECT returns the fixed error payload, acquires no
\* connection and makes no driver call.
C2_RejectsNonSelect ==
    \A i \in Inv :
        (/\ req[i].handler = "execute_safe_query"
         /\ ~StartsWith(Upper(Strip(req[i].query)), SELECT)) =>
            /\ pc[i] = "done"
            /\ ret[i] = [payload |-> <<[error  |-> <<"Only SELECT queries are allowed with this tool">>,
                                        status |-> "failed"]>>,
                         exc |-> <<>>]
            /\ conn[i] = 0
            /\ calls[i] = <<>>

\* execute_safe_query has rejected a query that mentions select after
\* another first word.
C2_Witness ==
    \E i \in Inv :
        /\ req[i].handler = "execute_safe_query"
        /\ req[i].query = <<"i","n","s","e","r","t"," ","s","e","l","e","c","t">>
        /\ pc[i] = "done"
        /\ Returned(ret[i])

\* C3: when connection acquisition fails, get_table_schema, execute_query and
\* execute_safe_query return an error payload with status "failed" and no
\* exception reaches the caller.
C3_ConnectFailureReturnsError ==
    \A i \in Inv :
        (/\ req[i].handler \in {"get_table_schema", "execute_query", "execute_safe_query"}
         /\ pc[i] = "done"
         /\ DriverRaised(i, 1)) =>
            /\ ~Raised(ret[i])
            /\ Returned(ret[i])
            /\ "error" \in DOMAIN ret[i].payload[1]
            /\ ret[i].payload[1].status = "failed"


\* C4: when a fetch or execute raises in get_table_schema or execute_query
\* (also reached through execute_safe_query), no exception is pending for or
\* received by the caller, and the handler returns the payload
\* {error: str(exception), status: "failed"}.
C4_DriverErrorReturnsError ==
    \A i \in Inv :
        req[i].handler \in {"get_table_schema", "execute_query", "execute_safe_query"} =>
            \A k \in 2..Len(answers[i]) :
                (calls[i][k].op \in {"fetch", "execute"} /\ DriverRaised(i, k)) =>
                    /\ pc[i] \in {"closing", "done"}
                    /\ ~Raised(pending[i])
                    /\ ~Raised(ret[i])
                    /\ pc[i] = "done" =>
                           ret[i] = [payload |-> <<[error  |-> <<answers[i][k].exc[1].msg>>,
                                                    status |-> "failed"]>>,
                                     exc |-> <<>>]

\* get_table_schema has returned after its foreign-key fetch raised.
C4_Witness ==
    \E i \in Inv :
        /\ req[i].handler = "get_table_schema"
        /\ pc[i] = "done"
        /\ DriverRaised(i, 4)
        /\ Returned(ret[i])

\* C5: when the column fetch returns no rows, get_table_schema issues no
\* further fetch, closes the connection, and returns the payload
\* {error: "Table '<table_name>' not found in schema '<schema_name>'",
\* status: "failed"} without raising.
C5_TableNotFound ==
    \A i \in Inv :
        (/\ req[i].handler = "get_table_schema"
         /\ Len(answers[i]) >= 2
         /\ answers[i][2] = [value |-> << <<>> >>, exc |-> <<>>]) =>
            /\ Count(i, "fetch") = 1
            /\ Count(i, "close") = 1
            /\ pc[i] \in {"closing", "done"}
            /\ ~Raised(pending[i])
            /\ pc[i] = "done" =>
                   /\ conn[i] \notin open
                   /\ ret[i] = [payload |-> <<[error  |-> <<"Table '", req[i].table_name,
                                                           "' not found in schema '",
                                                           req[i].schema_name, "'">>,
                                               status |-> "failed"]>>,
                                exc |-> <<>>]

\* get_table_schema has returned for a table whose column fetch was empty.
C5_Witness ==
    \E i \in Inv :
        /\ req[i].handler = "get_table_schema"
        /\ req[i].table_name = "orders"
        /\ req[i].schema_name = "sales"
        /\ pc[i] = "done"
        /\ Len(answers[i]) >= 2
        /\ answers[i][2].value = << <<>> >>

\* C6: in list_tables a failure of connection acquisition or of the catalog
\* fetch reaches the caller as that exception, no payload is returned, and a
\* connection that was acquired is closed before the exception reaches the
\* caller.
C6_ListTablesPropagates ==
    \A i \in Inv :
        (req[i].handler = "list_tables" /\ pc[i] = "done") =>
            \A k \in 1..2 :
                DriverRaised(i, k) =>
                    /\ ret[i] = [payload |-> <<>>, exc |-> answers[i][k].exc]
                    /\ conn[i] # 0 => /\ Count(i, "close") = 1
                                      /\ calls[i][Len(calls[i])].op = "close"
                                      /\ conn[i] \notin open

\* list_tables has finished after its catalog fetch raised.
C6_Witness ==
    \E i \in Inv :
        /\ req[i].handler = "list_tables"
        /\ pc[i] = "done"
        /\ DriverRaised(i, 2)
        /\ Raised(ret[i])

\* The query consists of any run of whitespace followed by the letters
\* s-e-l-e-c-t, each in either case, followed by anything.
SelectPrefixed(query) ==
    \E n \in 0..Len(query) :
        /\ \A k \in 1..n : query[k] \in Whitespace
        /\ Len(query) >= n + 6
        /\ \A k \in 1..6 :
               query[n + k] \in { <<"S","E","L","E","C","T">>[k],
                                  <<"s","e","l","e","c","t">>[k] }

\* C7: execute_query calls the driver's fetch and returns a payload of type
\* SELECT exactly when the query, after leading whitespace, starts with
\* SELECT in any letter case; every other query, the empty one included,
\* goes to the driver's execute.
C7_Classification ==
    \A i \in Inv :
        (req[i].handler \in {"execute_query", "execute_safe_query"}
         /\ Len(calls[i]) >= 2) =>
            /\ SelectPrefixed(eq[i].query) => calls[i][2].op = "fetch"
            /\ ~SelectPrefixed(eq[i].query) => calls[i][2].op = "execute"
            /\ (pc[i] = "done" /\ Returned(ret[i])
                /\ "error" \notin DOMAIN ret[i].payload[1]) =>
                   (SelectPrefixed(eq[i].query) <=>
                        /\ "results" \in DOMAIN ret[i].payload[1]
                        /\ ret[i].payload[1].type = <<"S","E","L","E","C","T">>)

\* execute_query has returned a SELECT payload for a mixed-case query behind
\* leading whitespace.
C7_Witness ==
    \E i \in Inv :
        /\ req[i].handler = "execute_query"
        /\ req[i].query = <<"\n","\t","S","e","L","e","C","t"," ","1">>
        /\ pc[i] = "done"
        /\ Returned(ret[i])
        /\ "results" \in DOMAIN ret[i].payload[1]

\* C8: for a query not classified as SELECT whose execute call succeeds with
\* a status string S (that has a last token), execute_query returns
\* {type: T, affected_rows: A, status: "success"} with T the first token of
\* the trimmed, upper-cased query and A the last token of S.
C8_MutationPayload ==
    \A i \in Inv :
        (/\ req[i].handler = "execute_query"
         /\ Len(answers[i]) >= 2
         /\ calls[i][2].op = "execute"
         /\ answers[i][2].value # <<>>
         /\ Split(answers[i][2].value[1]) # <<>>
         /\ pc[i] = "done") =>
            LET S == Split(answers[i][2].value[1])
                Q == Split(Upper(Strip(req[i].query)))
            IN  /\ Returned(ret[i])
                /\ ret[i].payload[1].status = "success"
                /\ Q # <<>>
                /\ ret[i].payload[1] = [type          |-> Q[1],
                                        affected_rows |-> S[Len(S)],
                                        status        |-> "success"]

\* C9: every open connection is owned by exactly one invocation in flight,
\* no two invocations hold the same connection, an invocation attempts at
\* most one acquisition and makes all its calls on the one connection it
\* got, and when no invocation is in flight no connection is open.
C9_ConnectionOwnership ==
    /\ \A c \in open :
           Cardinality({i \in Inv : conn[i] = c /\ pc[i] \notin {"idle", "done"}}) = 1
    /\ \A i, j \in Inv : (i # j /\ conn[i] # 0) => conn[i] # conn[j]
    /\ \A i \in Inv :
           /\ Count(i, "connect") <= 1
           /\ \A k \in 1..Len(calls[i]) :
                  calls[i][k].op # "connect" =>
                      (calls[i][k].on = conn[i] /\ conn[i] # 0)
    /\ (\A i \in Inv : pc[i] \in {"idle", "done"}) => open = {}

\* Two invocations are in flight together, each with its own open connection.
C9_Witness ==
    \E i, j \in Inv :
        /\ i # j
        /\ conn[i] \in open
        /\ conn[j] \in open
        /\ pc[i] \notin {"idle", "done"}
        /\ pc[j] \notin {"idle", "done"}

\* C10: the driver call of execute_query carries the caller's query text
\* unchanged and the given params, in order, as its positional arguments
\* (none when params is None); execute_safe_query passes an accepted query
\* unchanged and no params to execute_query.
C10_QueryForwarded ==
    \A i \in Inv :
        /\ (req[i].handler = "execute_query" /\ Len(calls[i]) >= 2) =>
               /\ calls[i][2].op \in {"fetch", "execute"}
               /\ calls[i][2].text = req[i].query
               /\ calls[i][2].args = req[i].params.vals
        /\ (req[i].handler = "execute_safe_query" /\ Len(calls[i]) >= 1) =>
               /\ eq[i].query = req[i].query
               /\ eq[i].params = [none |-> TRUE, vals |-> <<>>]
               /\ Len(calls[i]) >= 2 =>
                      /\ calls[i][2].op \in {"fetch", "execute"}
                      /\ calls[i][2].text = req[i].query
                      /\ calls[i][2].args = <<>>

\* execute_query has called the driver for a lower-case query behind leading
\* whitespace with two parameters given in descending order.
C10_Witness ==
    \E i \in Inv :
        /\ req[i].handler = "execute_query"
        /\ req[i].query = <<" ","i","n","s","e","r","t"," ","1">>
        /\ req[i].params = [none |-> FALSE, vals |-> <<2, 1>>]
        /\ Len(calls[i]) >= 2
        /\ calls[i][2].op = "execute"


SuccessShapes ==
    { {"schema", "tables", "count"},
      {"schema", "table", "columns", "primary_keys", "foreign_keys"},
      {"type", "row_count", "results"},
      {"type", "affected_rows", "status"} }

\* A payload is an error payload with the keys error and status only, or a
\* success payload with all the keys of its kind and status other than failed.
WellFormed(p) ==
    IF "error" \in DOMAIN p \/ ("status" \in DOMAIN p /\ p.status = "failed")
    THEN /\ DOMAIN p = {"error", "status"}
         /\ p.status = "failed"
         /\ DOMAIN p \cap {"tables", "columns", "primary_keys", "foreign_keys",
                           "results", "row_count", "affected_rows"} = {}
    ELSE DOMAIN p \in SuccessShapes

\* C13: every payload a handler is about to return or has returned is either
\* a complete success result or an error payload {error, status: "failed"}
\* that carries no result field, also when get_table_schema fails after its
\* column fetch succeeded.
C13_NoPartialResult ==
    \A i \in Inv :
        /\ Returned(pending[i]) => WellFormed(pending[i].payload[1])
        /\ Returned(ret[i]) => WellFormed(ret[i].payload[1])

\* get_table_schema has returned an error payload after its column fetch
\* returned rows and its primary-key fetch raised.
C13_Witness ==
    \E i \in Inv :
        /\ req[i].handler = "get_table_schema"
        /\ pc[i] = "done"
        /\ locals[i].columns # <<>>
        /\ DriverRaised(i, 3)
        /\ Returned(ret[i])
        /\ "error" \in DOMAIN ret[i].payload[1]

\* C14: an execute_safe_query invocation never calls the driver's execute:
\* a query its guard accepts is sent to fetch by execute_query.
C14_SafeQueryOnlyFetches ==
    \A i \in Inv :
        req[i].handler = "execute_safe_query" =>
            /\ \A k \in 1..Len(calls[i]) : calls[i][k].op # "execute"
            /\ pc[i] # "execute"
            /\ Len(calls[i]) >= 2 => calls[i][2].op = "fetch"

\* execute_safe_query has returned rows for an accepted query after one fetch.
C14_Witness ==
    \E i \in Inv :
        /\ req[i].handler = "execute_safe_query"
        /\ pc[i] = "done"
        /\ Count(i, "fetch") = 1
        /\ Returned(ret[i])
        /\ "results" \in DOMAIN ret[i].payload[1]
        /\ ret[i].payload[1].row_count = 2

====
